---- MODULE Spec2Model ----
(***************************************************************************)
(* Model of the two scripts of label-scripts:                              *)
(*   digikey/digi-scrape.py  (pipeline A: part lookup, process_csv)        *)
(*   lcsc-labels.py          (pipeline B: parse_data)                      *)
(*                                                                         *)
(* Text is modelled at the character level: a Python str is a sequence of  *)
(* one-character strings, so that strip(), lower(), split(), the `in`      *)
(* substring test, isdigit() and int() are computed, not assumed.          *)
(***************************************************************************)
EXTENDS Integers, Sequences, FiniteSets, TLC

VARIABLES
    \* ---- pipeline A (process_csv) ----
    pc,             \* position of process_csv
    input,          \* the rows csv.reader has yielded so far, in order
    row_idx,        \* 1-based index of the row the loop is at
    original_part,  \* row[0].strip() of the current row
    reply,          \* what the lookup service answered for the current row
    parts,          \* result.get('Parts', [])
    exact_match,    \* None or the selected record
    close_matches,  \* list of close records
    shown,          \* the numbered list printed before the prompt
    selection,      \* what input() returned for the current row
    output,         \* the rows written to the output CSV, header first
    lookups,        \* number of search_part calls made
    sleeps,         \* number of time.sleep(1) calls made
    \* ---- pipeline B (parse_data) ----
    pcB, input_arr, component_type, out_arr,
    \* ---- get_footprint ----
    pcF, parameters, footprint

varsA == <<pc, input, row_idx, original_part, reply, parts, exact_match,
           close_matches, shown, selection, output, lookups, sleeps>>
varsB == <<pcB, input_arr, component_type, out_arr>>
varsF == <<pcF, parameters, footprint>>
vars == <<varsA, varsB, varsF>>

----------------------------------------------------------------------------
(* Bounds of the model *)

MaxRows == 2        \* input rows per run
MaxRunParts == 1    \* records in a service response, in runs over several rows
MaxParts == 3       \* records in a service response, in the study of one row
MaxLong == 6        \* records in a long all-close response (beyond the display cap)
MaxLines == 2       \* rows handed to parse_data
MaxParams == 3      \* entries of a parameter list

(* Program constants *)

ShownCap == 5       \* close_matches[:5]
PacingDelay == 1    \* time.sleep(1)

----------------------------------------------------------------------------
(* Python str operations on character sequences *)

Whitespace == {" ", "\t"}

UpperCase == <<"A","B","C","D","E","F","G","H","I","J","K","L","M",
               "N","O","P","Q","R","S","T","U","V","W","X","Y","Z">>
LowerCase == <<"a","b","c","d","e","f","g","h","i","j","k","l","m",
               "n","o","p","q","r","s","t","u","v","w","x","y","z">>

LowerChar(c) ==
    IF \E i \in 1..Len(UpperCase) : UpperCase[i] = c
    THEN LowerCase[CHOOSE i \in 1..Len(UpperCase) : UpperCase[i] = c]
    ELSE c

\* str.lower()
Lower(s) == [i \in 1..Len(s) |-> LowerChar(s[i])]

SetMin(S) == CHOOSE x \in S : \A y \in S : x <= y
SetMax(S) == CHOOSE x \in S : \A y \in S : x >= y

\* str.strip()
Strip(s) ==
    LET keep == {i \in 1..Len(s) : s[i] \notin Whitespace}
    IN IF keep = {} THEN <<>> ELSE SubSeq(s, SetMin(keep), SetMax(keep))

\* needle in hay
Contains(needle, hay) ==
    \E i \in 0..(Len(hay) - Len(needle)) :
        SubSeq(hay, i + 1, i + Len(needle)) = needle

\* str.split(): the maximal runs of non-whitespace characters, in order
RECURSIVE SplitFrom(_, _, _, _)
SplitFrom(s, i, cur, acc) ==
    IF i > Len(s)
    THEN IF cur = <<>> THEN acc ELSE Append(acc, cur)
    ELSE IF s[i] \in Whitespace
         THEN SplitFrom(s, i + 1, <<>>, IF cur = <<>> THEN acc ELSE Append(acc, cur))
         ELSE SplitFrom(s, i + 1, Append(cur, s[i]), acc)

Split(s) == SplitFrom(s, 1, <<>>, <<>>)

\* Characters str.isdigit() accepts: the decimal digits and, among others, the
\* superscript digits ("^2" stands for the one character U+00B2).
DecimalDigits == <<"0","1","2","3","4","5","6","7","8","9">>
SuperscriptDigits == {"^2"}

IsDecimalChar(c) == \E d \in 1..Len(DecimalDigits) : DecimalDigits[d] = c
DecimalValue(c) == (CHOOSE d \in 1..Len(DecimalDigits) : DecimalDigits[d] = c) - 1

\* str.isdigit(): non-empty and every character is a digit character
IsDigit(s) ==
    /\ Len(s) > 0
    /\ \A i \in 1..Len(s) : IsDecimalChar(s[i]) \/ s[i] \in SuperscriptDigits

\* int(s) raises ValueError unless every character is a decimal digit
IntRaises(s) == \E i \in 1..Len(s) : ~IsDecimalChar(s[i])

RECURSIVE IntValue(_)
IntValue(s) ==
    IF s = <<>> THEN 0
    ELSE 10 * IntValue(SubSeq(s, 1, Len(s) - 1)) + DecimalValue(s[Len(s)])

----------------------------------------------------------------------------
(* get_footprint (digi-scrape.py lines 83-89) *)

\* A parameter entry: 'Parameter' (the name) and 'Value', each possibly absent.
Param(name, hasName, value, hasValue) ==
    [name |-> name, hasName |-> hasName, value |-> value, hasValue |-> hasValue]

FootprintWords ==
    { <<"c","a","s","e">>,
      <<"p","a","c","k","a","g","e">>,
      <<"f","o","o","t","p","r","i","n","t">> }

\* param.get('Parameter', '').lower()
ParamName(param) == IF param.hasName THEN Lower(param.name) ELSE <<>>

\* 'case' in param_name or 'package' in param_name or 'footprint' in param_name
IsFootprintParam(param) ==
    \E w \in FootprintWords : Contains(w, ParamName(param))

\* param.get('Value', 'N/A')
ParamValue(param) == IF param.hasValue THEN param.value ELSE "N/A"

RECURSIVE FootprintFrom(_, _)
FootprintLast(params, i) ==
    LET hits == {j \in 1..Len(params) : IsFootprintParam(params[j])}
    IN IF hits = {} THEN "N/A" ELSE ParamValue(params[SetMax(hits)])
FootprintFrom(params, i) ==
    IF i > Len(params) THEN "N/A"
    ELSE IF IsFootprintParam(params[i]) THEN ParamValue(params[i])
         ELSE FootprintFrom(params, i + 1)

get_footprint(params) == FootprintFrom(params, 1)

----------------------------------------------------------------------------
(* Pipeline A: records, service replies, decision-maker responses *)

AllKeys == {"DigiKeyPartNumber", "ManufacturerPartNumber", "Manufacturer",
            "ProductDescription", "PrimaryDatasheet", "Parameters"}

\* Keys the code reads with a subscript (KeyError when absent); the others are
\* read with .get and a default.
RequiredKeys == {"DigiKeyPartNumber", "Manufacturer", "ProductDescription"}

DkNames == <<"DK-1", "DK-2", "DK-3", "DK-4", "DK-5",
             "DK-6", "DK-7", "DK-8", "DK-9", "DK-10">>

\* Python None for exact_match
None == [dk |-> "", mpn |-> <<>>, keys |-> {}, nulls |-> {}]

\* Manufacturer part numbers the service may return, for the queries "R1"/"r1":
\* an equal one, one containing the query in the other case, a proper prefix.
MPNs == { <<"R","1">>, <<"x","r","1">>, <<"R">> }
CloseMPN == <<"x","r","1">>

KeyVariants == { AllKeys,
                 AllKeys \ {"DigiKeyPartNumber"},
                 AllKeys \ {"ProductDescription"} }

\* A record as the service sends it, without its place in the response: its MPN,
\* the keys it carries, and the keys whose value is JSON null.
Bodies ==
    { [mpn |-> m, keys |-> k, nulls |-> {}] : m \in MPNs, k \in KeyVariants }
    \cup { [mpn |-> <<>>, keys |-> AllKeys, nulls |-> {"ManufacturerPartNumber"}],
           [mpn |-> <<"R","1">>, keys |-> AllKeys \ {"PrimaryDatasheet", "Parameters"},
            nulls |-> {}] }

CloseBodies == {b \in Bodies : b.mpn = CloseMPN}

\* The i-th record of a response carries the i-th DigiKey part number.
MkParts(bs) ==
    [i \in 1..Len(bs) |->
        [dk |-> DkNames[i], mpn |-> bs[i].mpn, keys |-> bs[i].keys, nulls |-> bs[i].nulls]]

SeqsUpTo(S, n) == UNION {[1..k -> S] : k \in 0..n}

RunResponses == {MkParts(bs) : bs \in SeqsUpTo(Bodies, MaxRunParts)}
ShortResponses == {MkParts(bs) : bs \in SeqsUpTo(Bodies, MaxParts)}

\* Responses longer than the display cap: close matches throughout, the last
\* record (never shown) of any close kind.
LongResponses ==
    { MkParts([i \in 1..n |->
                 IF i = n THEN last
                 ELSE [mpn |-> CloseMPN, keys |-> AllKeys, nulls |-> {}]]) :
        n \in (ShownCap + 1)..MaxLong, last \in CloseBodies }

Responses == ShortResponses \cup LongResponses

EmptyResult == [type |-> "dict", hasParts |-> TRUE, Parts |-> <<>>]

\* What requests.post and response.json() can produce for one call: an
\* exception, a status other than 200, a 200 whose body is not JSON, or a 200
\* with a JSON body (an object with 'Parts', one without, or not an object).
RepliesWith(rs) ==
    { [kind |-> k, body |-> EmptyResult] : k \in {"exception", "status", "notjson"} }
    \cup { [kind |-> "ok", body |-> [type |-> "dict", hasParts |-> TRUE, Parts |-> r]] :
             r \in rs }
    \cup { [kind |-> "ok", body |-> [type |-> "dict", hasParts |-> FALSE, Parts |-> <<>>]],
           [kind |-> "ok", body |-> [type |-> "list", hasParts |-> FALSE, Parts |-> <<>>]] }

RunReplies == RepliesWith(RunResponses)
Replies == RepliesWith(Responses)

\* What input() can produce: a line of text, or EOFError.
Texts == { <<>>, <<"0">>, <<"1">>, <<"2">>, <<"3">>, <<"6">>, <<"7">>, <<"8">>,
           <<"0","1">>, <<"a">>, <<" ","1">>, <<"^2">> }
Selections ==
    { [eof |-> FALSE, text |-> t] : t \in Texts } \cup { [eof |-> TRUE, text |-> <<>>] }
NoSelectionYet == [eof |-> FALSE, text |-> <<"-">>]

\* Input rows: an empty row, or a row whose field 0 is blank or a part number
\* with or without surrounding whitespace.
Field0s == { <<" ">>, <<"R","1">>, <<" ","r","1"," ">> }
RowsA == { <<>> } \cup { <<f>> : f \in Field0s }

Header == << <<"O","r","i","g","i","n","a","l"," ","P","a","r","t">>, "Match Type",
             "DigiKey Part", "Manufacturer", "Footprint", "Datasheet Link", "Description" >>

SampleParameters ==
    << Param(<<"T","o","l","e","r","a","n","c","e">>, TRUE, "5%", TRUE),
       Param(<<"P","a","c","k","a","g","e"," ","/"," ","C","a","s","e">>, TRUE, "0402", TRUE) >>

----------------------------------------------------------------------------
(* search_part (lines 26-81) *)

\* Anything but a 200 answer with a JSON body comes back as {"Parts": []}.
search_partRaises(r) ==
    IF r.kind = "ok" THEN r.body
    ELSE [type |-> "list", hasParts |-> FALSE, Parts |-> <<>>]
search_part(r) == IF r.kind = "ok" THEN r.body ELSE EmptyResult

----------------------------------------------------------------------------
(* process_csv (lines 92-199) *)

\* not row or not row[0].strip()
IsBlankRow(row) == Len(row) = 0 \/ Strip(row[1]) = <<>>

\* part.get('ManufacturerPartNumber', '')
MPNOf(part) == IF "ManufacturerPartNumber" \in part.keys THEN part.mpn ELSE <<>>

\* manu_part.lower() == original_part.lower()
IsExactMatch(manu_part, q) == Lower(manu_part) = Lower(q)

\* original_part.lower() in manu_part.lower()
IsCloseReversed(manu_part, q) == Contains(Lower(manu_part), Lower(q))
IsCloseMatch(manu_part, q) == Contains(Lower(q), Lower(manu_part))

\* exact_match = part: every exact record overwrites the one before
AssignExact(old, part) == part

\* for part in parts: ... (lines 133-146); None.lower() raises AttributeError
RECURSIVE ClassifyFrom(_, _, _, _)
ClassifyFrom(q, ps, i, acc) ==
    IF i > Len(ps) THEN acc
    ELSE IF "ManufacturerPartNumber" \in ps[i].nulls
    THEN [acc EXCEPT !.raised = TRUE]
    ELSE LET manu_part == MPNOf(ps[i])
         IN IF IsExactMatch(manu_part, q)
            THEN ClassifyFrom(q, ps, i + 1,
                     [acc EXCEPT !.exact_match = AssignExact(acc.exact_match, ps[i])])
            ELSE IF IsCloseMatch(manu_part, q)
            THEN ClassifyFrom(q, ps, i + 1,
                     [acc EXCEPT !.close_matches = Append(acc.close_matches, ps[i])])
            ELSE ClassifyFrom(q, ps, i + 1, acc)

Classify(q, ps) ==
    ClassifyFrom(q, ps, 1, [raised |-> FALSE, exact_match |-> None, close_matches |-> <<>>])

\* if exact_match: ... elif close_matches: ... else: ...
BranchCloseFirst(exact, close) ==
    IF close # <<>> THEN "close" ELSE IF exact # None THEN "exact" ELSE "none"
Branch(exact, close) ==
    IF exact # None THEN "exact" ELSE IF close # <<>> THEN "close" ELSE "none"

\* rec['DigiKeyPartNumber'], rec['Manufacturer']['Value'], rec['ProductDescription']
RecordRaises(rec) == ~(RequiredKeys \subseteq rec.keys)

\* The row written for a selected record (lines 152-160, 174-182)
SelectedRow(q, type, rec) ==
    << q, type, rec.dk, "Mfr",
       get_footprint(IF "Parameters" \in rec.keys THEN SampleParameters ELSE <<>>),
       IF "PrimaryDatasheet" \in rec.keys THEN "https://datasheet" ELSE "N/A",
       "Description" >>

BlankRow(q, type) == << q, type, "", "", "", "", "" >>

\* close_matches[:5]
ShownOf(close) ==
    SubSeq(close, 1, IF Len(close) < ShownCap THEN Len(close) ELSE ShownCap)

\* match['ProductDescription'][:50] for the records shown (line 168)
DisplayRaises(close) ==
    \E i \in 1..Len(ShownOf(close)) : "ProductDescription" \notin close[i].keys

\* except Exception: writer.writerow([original_part, 'Error', ...]) (line 198)
ExceptRowsNone(q) == <<>>
ExceptRows(q) == << BlankRow(q, "Error") >>

\* The step from the return of search_part to the next suspension point: the
\* rows written, the locals, and whether the prompt comes next.
Step(ps, c, sh, rows, next) ==
    [parts |-> ps, exact_match |-> c.exact_match, close_matches |-> c.close_matches,
     shown |-> sh, rows |-> rows, next |-> next]

AfterLookup(q, result) ==
    IF result.type # "dict"
    THEN \* result.get raises AttributeError
         Step(<<>>, Classify(q, <<>>), <<>>, ExceptRows(q), "sleep")
    ELSE LET ps == IF result.hasParts THEN result.Parts ELSE <<>>
             c == Classify(q, ps)
             br == Branch(c.exact_match, c.close_matches)
         IN IF c.raised THEN Step(ps, c, <<>>, ExceptRows(q), "sleep")
            ELSE IF br = "exact"
            THEN IF RecordRaises(c.exact_match)
                 THEN Step(ps, c, <<>>, ExceptRows(q), "sleep")
                 ELSE Step(ps, c, <<>>, << SelectedRow(q, "Exact", c.exact_match) >>, "sleep")
            ELSE IF br = "close"
            THEN IF DisplayRaises(c.close_matches)
                 THEN Step(ps, c, <<>>, ExceptRows(q), "sleep")
                 ELSE Step(ps, c, ShownOf(c.close_matches), <<>>, "prompt")
            ELSE Step(ps, c, <<>>, << BlankRow(q, "No match") >>, "sleep")

\* selection.isdigit() and 0 < int(selection) <= len(close_matches)
IsValidSelection(text, close) ==
    IsDigit(text) /\ ~IntRaises(text) /\ 0 < IntValue(text) /\ IntValue(text) <= Len(close)

\* Lines 170-185: the rows written once input() has returned or raised.
AfterPrompt(q, close, sel) ==
    IF sel.eof THEN ExceptRows(q)
    ELSE IF IsDigit(sel.text) /\ IntRaises(sel.text) THEN ExceptRows(q)
    ELSE IF IsValidSelection(sel.text, close)
    THEN LET selected == close[IntValue(sel.text)]
         IN IF RecordRaises(selected) THEN ExceptRows(q)
            ELSE << SelectedRow(q, "Manual Selection", selected) >>
    ELSE << BlankRow(q, "No selection") >>

\* time.sleep(1) on the normal path (line 192) and in the handler (line 199)
SleepNotAfterError(type) == IF type = "Error" THEN 0 ELSE PacingDelay
SleepAfter(type) == PacingDelay

LastRow == output[Len(output)]

InitA ==
    /\ pc = "start"
    /\ input = <<>>
    /\ row_idx = 1
    /\ original_part = <<>>
    /\ reply = "none"
    /\ parts = <<>>
    /\ exact_match = None
    /\ close_matches = <<>>
    /\ shown = <<>>
    /\ selection = NoSelectionYet
    /\ output = <<>>
    /\ lookups = 0
    /\ sleeps = 0

\* Lines 94-111: credentials, token, the files, the header.
Start ==
    /\ pc = "start"
    /\ \E credentials \in BOOLEAN, token_ok \in BOOLEAN :
         IF credentials /\ token_ok
         THEN pc' = "loop" /\ output' = << Header >>
         ELSE pc' = "aborted" /\ output' = output
    /\ UNCHANGED <<input, row_idx, original_part, reply, parts, exact_match,
                   close_matches, shown, selection, lookups, sleeps>>

\* Lines 114-125: the reader yields the next row or is exhausted; a blank row is
\* skipped, another one is looked up.
ReadRow ==
    /\ pc = "loop"
    /\ row_idx = Len(input) + 1
    /\ \/ /\ pc' = "done"
          /\ UNCHANGED <<input, row_idx, original_part, lookups>>
       \/ /\ Len(input) < MaxRows
          /\ \E row \in RowsA :
               /\ input' = Append(input, row)
               /\ IF IsBlankRow(row)
                  THEN /\ row_idx' = row_idx + 1
                       /\ UNCHANGED <<pc, original_part, lookups>>
                  ELSE /\ original_part' = Strip(row[1])
                       /\ pc' = "lookup"
                       /\ lookups' = lookups + 1
                       /\ UNCHANGED row_idx
    /\ UNCHANGED <<reply, parts, exact_match, close_matches, shown,
                   selection, output, sleeps>>

\* Lines 125-189: the service answers; the row is classified and written, or the
\* close matches are listed and the prompt is issued.
SearchPart(replies) ==
    /\ pc = "lookup"
    /\ \E r \in replies :
         LET s == AfterLookup(original_part, search_part(r))
         IN /\ reply' = r.kind
            /\ parts' = s.parts
            /\ exact_match' = s.exact_match
            /\ close_matches' = s.close_matches
            /\ shown' = s.shown
            /\ output' = output \o s.rows
            /\ pc' = s.next
    /\ UNCHANGED <<input, row_idx, original_part, selection, lookups, sleeps>>

\* Lines 170-185: the decision-maker answers.
Prompt ==
    /\ pc = "prompt"
    /\ \E sel \in Selections :
         /\ selection' = sel
         /\ output' = output \o AfterPrompt(original_part, close_matches, sel)
    /\ pc' = "sleep"
    /\ UNCHANGED <<input, row_idx, original_part, reply, parts, exact_match,
                   close_matches, shown, lookups, sleeps>>

\* Lines 192 and 199, then the next iteration. The locals are dead from here on:
\* each is assigned again (lines 118-130, 170) before it is read.
Sleep ==
    /\ pc = "sleep"
    /\ sleeps' = sleeps + SleepAfter(IF Len(output) > 1 THEN LastRow[2] ELSE "Error")
    /\ row_idx' = row_idx + 1
    /\ pc' = "loop"
    /\ original_part' = <<>>
    /\ reply' = "none"
    /\ parts' = <<>>
    /\ exact_match' = None
    /\ close_matches' = <<>>
    /\ shown' = <<>>
    /\ selection' = NoSelectionYet
    /\ UNCHANGED <<input, output, lookups>>

IdleA ==
    /\ pc = "off" /\ input = <<>> /\ row_idx = 1 /\ original_part = <<>>
    /\ reply = "none" /\ parts = <<>> /\ exact_match = None /\ close_matches = <<>>
    /\ shown = <<>> /\ selection = NoSelectionYet /\ output = <<>>
    /\ lookups = 0 /\ sleeps = 0
IdleB == pcB = "off" /\ input_arr = <<>> /\ component_type = "c" /\ out_arr = <<>>
IdleF == pcF = "off" /\ parameters = <<>> /\ footprint = ""

Init == InitA /\ IdleB /\ IdleF

Next ==
    \/ Start /\ UNCHANGED <<varsB, varsF>>
    \/ ReadRow /\ UNCHANGED <<varsB, varsF>>
    \/ SearchPart(RunReplies) /\ UNCHANGED <<varsB, varsF>>
    \/ Prompt /\ UNCHANGED <<varsB, varsF>>
    \/ Sleep /\ UNCHANGED <<varsB, varsF>>

\* Runs of process_csv over up to MaxRows rows.
Spec == Init /\ [][Next]_vars

\* One iteration of the loop, from the call of search_part for the first
\* non-blank row to the end of the pacing delay, with the larger responses.
InitMatch ==
    /\ pc = "lookup"
    /\ \E f \in {g \in Field0s : Strip(g) # <<>>} :
         input = << <<f>> >> /\ original_part = Strip(f)
    /\ row_idx = 1
    /\ reply = "none" /\ parts = <<>> /\ exact_match = None /\ close_matches = <<>>
    /\ shown = <<>> /\ selection = NoSelectionYet
    /\ output = << Header >>
    /\ lookups = 1 /\ sleeps = 0
    /\ IdleB /\ IdleF

NextMatch ==
    \/ SearchPart(Replies) /\ UNCHANGED <<varsB, varsF>>
    \/ Prompt /\ UNCHANGED <<varsB, varsF>>
    \/ Sleep /\ UNCHANGED <<varsB, varsF>>

SpecMatch == InitMatch /\ [][NextMatch]_vars

----------------------------------------------------------------------------
(* Pipeline B: parse_data (lcsc-labels.py lines 26-40) *)

CapHeader == <<"LCSC Number", "MPN", "Capacitance", "Voltage", "Tolerance", "Dielectric", "Size">>
ResHeader == <<"LCSC Number", "MPN", "Resistance", "Power", "Tolerance", "Size">>

\* Rows of the input CSV: six fields with a four-token specification (plain, or
\* with leading, doubled and trailing blanks), with a two-token one, with a
\* five-token one, and a row of two fields.
SpecStrings ==
    { <<"6","V"," ","1","u"," ","X","7"," ","5","%">>,
      <<" ","6","V"," "," ","1","u"," ","X","7"," ","5","%"," ">>,
      <<"6","V"," ","1","u">>,
      <<"6","V"," ","1","u"," ","X","7"," ","5","%"," ","z">> }
RowsB ==
    { << <<"L","1">>, <<"M","1">>, <<"d">>, <<"u">>, <<"0","4">>, f5 >> : f5 \in SpecStrings }
    \cup { << <<"L","2">>, <<"M","2">> >> }

\* Capacitor branch, lines 30-33. line[5] and stat[k] raise IndexError when the
\* row has fewer than six fields or the specification fewer than four tokens.
RECURSIVE ParseCapFrom(_, _, _)
ParseCapFrom(lines, i, acc) ==
    IF i > Len(lines) THEN [status |-> "done", rows |-> acc]
    ELSE LET line == lines[i]
         IN IF Len(line) < 6 THEN [status |-> "IndexError", rows |-> <<>>]
            ELSE LET stat == Split(line[6])
                 IN IF Len(stat) < 4 THEN [status |-> "IndexError", rows |-> <<>>]
                    ELSE ParseCapFrom(lines, i + 1,
                             Append(acc, <<line[1], line[2], stat[2], stat[1],
                                           stat[4], stat[3], line[5]>>))

\* Resistor branch, lines 35-39. stat is the bound method line[5].split, never
\* called: stat[1] raises TypeError for the first row of six fields or more.
ParseRes(lines) ==
    IF Len(lines) = 0 THEN [status |-> "done", rows |-> << ResHeader >>]
    ELSE IF Len(lines[1]) < 6 THEN [status |-> "IndexError", rows |-> <<>>]
    ELSE [status |-> "TypeError", rows |-> <<>>]

\* An exception leaves parse_data without a return value: nothing is printed.
parse_data(lines, type) ==
    IF type = "c" THEN ParseCapFrom(lines, 1, << CapHeader >>)
    ELSE IF type = "r" THEN ParseRes(lines)
    ELSE [status |-> "done", rows |-> <<>>]

InitB ==
    /\ pcB = "start"
    /\ input_arr \in SeqsUpTo(RowsB, MaxLines)
    /\ component_type \in {"c", "r"}
    /\ out_arr = <<>>

\* Lines 45-48: out_arr = parse_data(arr, component_type); print(out_arr)
ParseData ==
    /\ pcB = "start"
    /\ LET res == parse_data(input_arr, component_type)
       IN pcB' = res.status /\ out_arr' = res.rows
    /\ UNCHANGED <<input_arr, component_type>>

NextB == ParseData /\ UNCHANGED <<varsA, varsF>>

InitPipelineB == IdleA /\ InitB /\ IdleF

SpecB == InitPipelineB /\ [][NextB]_vars

----------------------------------------------------------------------------
(* get_footprint applied to arbitrary parameter lists *)

ParamsF ==
    { Param(<<"C","a","s","e">>, TRUE, "0402", TRUE),
      Param(<<"D","e","v"," ","P","A","C","K","A","G","E">>, TRUE, "0603", TRUE),
      Param(<<"F","o","o","t","p","r","i","n","t">>, TRUE, "SOT", FALSE),
      Param(<<"C","a","s">>, TRUE, "1%", TRUE),
      Param(<<"T","o","l">>, TRUE, "5%", TRUE),
      Param(<<>>, FALSE, "X", TRUE) }

InitF ==
    /\ pcF = "start"
    /\ parameters \in SeqsUpTo(ParamsF, MaxParams)
    /\ footprint = ""

GetFootprint ==
    /\ pcF = "start"
    /\ footprint' = get_footprint(parameters)
    /\ pcF' = "done"
    /\ UNCHANGED parameters

NextF == GetFootprint /\ UNCHANGED <<varsA, varsB>>

InitFootprint == IdleA /\ IdleB /\ InitF

SpecF == InitFootprint /\ [][NextF]_vars

----------------------------------------------------------------------------
(* Properties.  The predicates below state what the specification says in its *)
(* own terms; they do not use the operators that model the code.              *)

\* A row is blank when it has no field or its field 0 is all whitespace.
BlankInput(row) == Len(row) = 0 \/ \A i \in 1..Len(row[1]) : row[1][i] \in Whitespace

NonBlank(rows) == SelectSeq(rows, LAMBDA r : ~BlankInput(r))

\* Equality and containment of strings up to letter case.
CIEqual(a, b) ==
    /\ Len(a) = Len(b)
    /\ \A i \in 1..Len(a) : LowerChar(a[i]) = LowerChar(b[i])

CIContains(needle, hay) ==
    \E off \in 0..(Len(hay) - Len(needle)) :
        \A j \in 1..Len(needle) : LowerChar(hay[off + j]) = LowerChar(needle[j])

NullMPN(p) == "ManufacturerPartNumber" \in p.nulls
TextMPN(p) == IF "ManufacturerPartNumber" \in p.keys THEN p.mpn ELSE <<>>

ExactIdx == {i \in 1..Len(parts) : ~NullMPN(parts[i]) /\ CIEqual(TextMPN(parts[i]), original_part)}
CloseRecord(p) ==
    /\ ~NullMPN(p)
    /\ CIContains(original_part, TextMPN(p))
    /\ ~CIEqual(TextMPN(p), original_part)
AnyNullMPN == \E i \in 1..Len(parts) : NullMPN(parts[i])

RowTypes == {"Exact", "Manual Selection", "No selection", "No match", "Error"}

\* C1: the data rows written equal the non-blank rows read, one row each, also
\* when processing a row raised (that row carries 'Error'): while a row is being
\* processed its output row is still to come, and once it sleeps, the loop is at
\* its head or the run is over, every non-blank row read has exactly one row.
C1_RowCountParity ==
    /\ pc \in {"loop", "sleep", "done"} => Len(output) = 1 + Len(NonBlank(input))
    /\ pc \in {"lookup", "prompt"} => Len(output) = Len(NonBlank(input))
    /\ \A i \in 2..Len(output) : output[i][2] \in RowTypes

C1_Witness ==
    /\ pc = "done"
    /\ Len(input) = 2
    /\ BlankInput(input[1])
    /\ Len(output) = 2
    /\ output[2][2] = "Error"

\* C2: the record written in an 'Exact' row is the first candidate, in the
\* service's order, whose MPN equals the query up to case.
C2_FirstExactWins ==
    (pc = "sleep" /\ LastRow[2] = "Exact") =>
        /\ ExactIdx # {}
        /\ LastRow[3] = parts[SetMin(ExactIdx)].dk

\* What the code does instead: the last such candidate is written.
C2_LastExactWins ==
    (pc = "sleep" /\ LastRow[2] = "Exact") =>
        /\ ExactIdx # {}
        /\ LastRow[3] = parts[SetMax(ExactIdx)].dk

\* C3 as stated: with an exact match among the candidates the row is written
\* 'Exact' without a prompt; the prompt comes only with no exact match and a
\* non-empty close-match set.
C3_ExactAlwaysExactRow ==
    /\ (pc \in {"prompt", "sleep"} /\ ExactIdx # {}) =>
          /\ pc = "sleep"
          /\ selection = NoSelectionYet
          /\ LastRow[2] = "Exact"
    /\ pc = "prompt" => (ExactIdx = {} /\ \E i \in 1..Len(parts) : CloseRecord(parts[i]))

\* C3 amended: with an exact match among the candidates the decision-maker is
\* never prompted and the row is written 'Exact', or 'Error' when a candidate's
\* MPN is null or the selected record lacks one of the fields the row needs; the
\* prompt comes only with no exact match and a non-empty close-match set.
C3_ExactOrErrorNoPrompt ==
    /\ (pc \in {"prompt", "sleep"} /\ ExactIdx # {}) =>
          /\ pc = "sleep"
          /\ selection = NoSelectionYet
          /\ shown = <<>>
          /\ LastRow[1] = original_part
          /\ LastRow[2] =
                IF ~AnyNullMPN /\ RequiredKeys \subseteq parts[SetMax(ExactIdx)].keys
                THEN "Exact" ELSE "Error"
    /\ pc = "prompt" => (ExactIdx = {} /\ \E i \in 1..Len(parts) : CloseRecord(parts[i]))

C3_Witness ==
    /\ pc = "sleep"
    /\ Len(parts) = 3
    /\ CloseRecord(parts[1])
    /\ ExactIdx = {2}
    /\ CloseRecord(parts[3])
    /\ LastRow[2] = "Exact"

IndexInto(text, n) ==
    /\ Len(text) > 0
    /\ \A i \in 1..Len(text) : IsDecimalChar(text[i])
    /\ IntValue(text) \in 1..n

\* C5 (its second half): every response of the decision-maker that is not a
\* valid 1-based index into the full close-match set yields 'No selection' with
\* empty fields.
C5_InvalidResponseNoSelection ==
    (pc = "sleep" /\ selection # NoSelectionYet /\ ~selection.eof
       /\ ~IndexInto(selection.text, Len(close_matches))) =>
        LastRow = << original_part, "No selection", "", "", "", "", "" >>

\* C6: a lookup that failed (an exception in the call, a status other than 200)
\* is a lookup without candidates: the row [query, 'No match', '', '', '', '', '']
\* is written, nothing is raised, and the loop goes on to the pacing delay.
C6_FailedLookupNoMatch ==
    reply \in {"exception", "status"} =>
        /\ pc = "sleep"
        /\ parts = <<>>
        /\ selection = NoSelectionYet
        /\ Len(output) = 1 + Len(NonBlank(input))
        /\ LastRow = << original_part, "No match", "", "", "", "", "" >>

C6_Witness ==
    /\ reply = "exception"
    /\ pc = "sleep"
    /\ row_idx = 2
    /\ LastRow[2] = "No match"

\* The entries of a parameter list whose name, lower-cased, contains one of the
\* three words.
Qualifying(ps) ==
    {i \in 1..Len(ps) :
        /\ ps[i].hasName
        /\ \/ CIContains(<<"c","a","s","e">>, ps[i].name)
           \/ CIContains(<<"p","a","c","k","a","g","e">>, ps[i].name)
           \/ CIContains(<<"f","o","o","t","p","r","i","n","t">>, ps[i].name)}

\* C7: get_footprint returns the value of the first qualifying entry, whatever
\* follows it ('N/A' standing for a value the entry does not carry), and 'N/A'
\* when no entry qualifies.
C7_FirstFootprint ==
    pcF = "done" =>
        footprint =
            IF Qualifying(parameters) = {} THEN "N/A"
            ELSE LET first == parameters[SetMin(Qualifying(parameters))]
                 IN IF first.hasValue THEN first.value ELSE "N/A"

C7_Witness ==
    /\ pcF = "done"
    /\ Len(parameters) = 3
    /\ Qualifying(parameters) = {2, 3}
    /\ parameters[2].value # parameters[3].value
    /\ footprint = parameters[2].value

\* Tokens of a specification string, counted without the splitter of the model:
\* a token starts at each non-blank character that follows a blank or the start.
TokenCount(str) ==
    Cardinality({i \in 1..Len(str) :
        str[i] \notin Whitespace /\ (i = 1 \/ str[i - 1] \in Whitespace)})

ShortSpec(line) == Len(line) >= 6 /\ TokenCount(line[6]) < 4

\* C8: a row whose specification has fewer than four tokens is reported as a
\* malformed specification; parse_data does not end in an indexing fault or any
\* other exception.
C8_MalformedReported ==
    (pcB # "start" /\ \E i \in 1..Len(input_arr) : ShortSpec(input_arr[i])) =>
        pcB \notin {"IndexError", "TypeError"}

\* C9: for capacitors, every input row whose specification has at least four
\* tokens t0..t3 has its output row [field0, field1, t1, t0, t3, t2, field4]
\* after the single header row, at its place in input order.
C9_CapacitorRows ==
    (pcB # "start" /\ component_type = "c") =>
        \A i \in 1..Len(input_arr) :
            (Len(input_arr[i]) >= 6 /\ TokenCount(input_arr[i][6]) >= 4) =>
                /\ Len(out_arr) >= i + 1
                /\ out_arr[1] = CapHeader
                /\ LET line == input_arr[i]
                       t == Split(line[6])
                   IN out_arr[i + 1] = <<line[1], line[2], t[2], t[1], t[4], t[3], line[5]>>

\* C10: rows are processed one at a time in input order and a pacing delay
\* follows every processed row whatever its outcome: when a lookup is issued,
\* every earlier lookup has been followed by its delay, and the rows written are
\* those of the non-blank rows read, in order.
C10_PacingAndOrder ==
    /\ lookups = Len(NonBlank(input))
    /\ pc \in {"lookup", "prompt", "sleep"} => sleeps = PacingDelay * (lookups - 1)
    /\ pc \in {"loop", "done"} => sleeps = PacingDelay * lookups
    /\ \A i \in 2..Len(output) : output[i][1] = Strip(NonBlank(input)[i - 1][1])

C10_Witness ==
    /\ pc = "lookup"
    /\ lookups = 2
    /\ sleeps = PacingDelay
    /\ output[2][2] = "Error"

====
